---- MODULE Spec2Model ----
(***************************************************************************)
(* Model of tally_out.py: a capture callback enqueues decimated audio      *)
(* blocks, the animation timer runs update_plot, which drains the queue,   *)
(* rolls each block into the window plotdata, takes the window maximum and *)
(* drives two GPIO pins from three thresholds.                             *)
(*                                                                         *)
(* Amplitudes are integers, the source's floats times 100 (0.80 -> 80).    *)
(* One channel is monitored (the default channels=[1]), so a row of a      *)
(* block or of the window is one sample.                                   *)
(***************************************************************************)
EXTENDS Integers, Sequences, FiniteSets, TLC

VARIABLES
    q,          \* queue.Queue(): the blocks put and not yet got, oldest first
    plotdata,   \* the rolling window, `length` rows, oldest first
    gpio,       \* level of each output pin
    stream,     \* the sd.InputStream: "new", "active", "closed"
    pc,         \* position of the main script
    cycle,      \* position of update_plot: "idle", "loop", "raised", "dead"
    outputs,    \* the pins set up as outputs and not yet cleaned up
    windowArg,  \* args.window as given: "positive" or "negative"
    scope,      \* what the run explores: sample levels, rows, history kept
    \* observation of the run (no code reads these)
    step,       \* name of the step just taken
    old,        \* plotdata before the step just taken
    before,     \* gpio before the step just taken
    writes,     \* GPIO.output calls of the step just taken, in order
    printed,    \* line printed to stdout by the step just taken
    stderr,     \* what the step just taken printed to stderr
    enq,        \* every block put into q, in order
    deq,        \* every block got from q, in order
    pushed,     \* every block written into plotdata, in order
    tape,       \* the rows that went through the window since it was last whole
    atStart,    \* number of blocks put before the current cycle began
    begun,      \* pin levels and number of pushed blocks when the cycle began
    peaks       \* the window maxima classified in the current cycle, in order

vars == <<q, plotdata, gpio, stream, pc, cycle, outputs, windowArg, scope, step, old, before, writes,
          printed, stderr, enq, deq, pushed, tape, atStart, begun, peaks>>

---------------------------------------------------------------------------
\* Bounds of the model

\* rows of the window (int(window * samplerate / (1000 * downsample)))
length == 2
\* every Nth frame of a captured block is kept
downsample == 2
\* most frames one callback delivers
MaxFrames == 6
\* most rows the callback enqueues over a run
MaxRows == 3
\* the same for the runs of two and three sample levels
MaxHoldRows == 5
\* most rows waiting in the queue in the runs that keep no history
MaxLiveRows == 3

---------------------------------------------------------------------------
\* Names and thresholds

name1 == "Camera 4"
name1threshold == 80
name2 == "Camera 7"
name2threshold == 20
off_threshold == 10
pinone == 22
pintwo == 25
HIGH == 1
LOW == 0

Pins == {pinone, pintwo}

\* sample values around every threshold: below off, the two ends of the
\* dead zone, the top of the second band, above the first threshold
Samples == {5, 10, 20, 80, 90}
\* the value of the frames that decimation skips
\* the levels of the longer runs: quiet, trigger two, trigger one
HoldSamples == {5, 80, 90}
\* the levels of the runs without history: quiet and trigger one
LiveSamples == {5, 90}
Loud == name1threshold + 15

---------------------------------------------------------------------------
\* Helpers

Range(s) == {s[i] : i \in DOMAIN s}

Zeros(n) == [i \in 1..n |-> 0]

RECURSIVE Rows(_)
Rows(blocks) ==
    IF blocks = <<>> THEN 0 ELSE Len(Head(blocks)) + Rows(Tail(blocks))

\* the last n rows of s (all of s when it has fewer)
LastRows(s, n) ==
    IF Len(s) <= n THEN s ELSE SubSeq(s, Len(s) - n + 1, Len(s))

\* ndarray.max()
Max(a) == CHOOSE x \in Range(a) : \A y \in Range(a) : y <= x

\* number of rows of indata[::args.downsample] for a block of `frames` frames
Kept(frames) == (frames + downsample - 1) \div downsample

\* indata[::args.downsample, mapping]: rows 0, N, 2N, ... of the block
Decimate(indata) ==
    [i \in 1..Kept(Len(indata)) |-> indata[(i - 1) * downsample + 1]]

\* a captured block of `frames` frames whose kept rows are `rows`
Raw(rows, frames) ==
    [i \in 1..frames |->
        IF (i - 1) % downsample = 0 THEN rows[((i - 1) \div downsample) + 1]
        ELSE Loud]

\* np.roll(a, k, axis=0): row i of the result is row i - k of a, cyclically
roll(a, k) ==
    [i \in 1..Len(a) |-> a[((i - 1 - k) % Len(a)) + 1]]

\* first row of the slice a[-shift:]
TailStart(a, shift) ==
    IF shift = 0 \/ shift > Len(a) THEN 1 ELSE Len(a) - shift + 1

\* a[-shift:, :] = data succeeds when data has as many rows as the slice,
\* or one row (broadcast); otherwise numpy raises ValueError
CanAssign(a, shift, data) ==
    \/ Len(data) = Len(a) - TailStart(a, shift) + 1
    \/ Len(data) = 1

\* the block written over the oldest rows instead (a[:shift, :] = data)
SetTail_head(a, shift, data) ==
    [i \in 1..Len(a) |->
        IF i > Len(a) - TailStart(a, shift) + 1 THEN a[i]
        ELSE IF Len(data) = 1 THEN data[1]
        ELSE data[i]]

\* a[-shift:, :] = data
SetTail(a, shift, data) ==
    [i \in 1..Len(a) |->
        IF i < TailStart(a, shift) THEN a[i]
        ELSE IF Len(data) = 1 THEN data[1]
        ELSE data[i - TailStart(a, shift) + 1]]

liton(g, pin) == [g EXCEPT ![pin] = HIGH]

\* the pin driven to the opposite of the level read back
litoff_toggle(g, pin) == [g EXCEPT ![pin] = IF g[pin] = LOW THEN HIGH ELSE LOW]

litoff(g, pin) == [g EXCEPT ![pin] = LOW]

\* the first comparison not strict (themax >= name1threshold)
Trigger_ge(g, themax) ==
    IF themax >= name1threshold THEN
        [gpio |-> litoff(liton(g, pinone), pintwo),
         writes |-> <<<<pinone, HIGH>>, <<pintwo, LOW>>>>,
         printed |-> "Camera 4 on"]
    ELSE IF themax > name2threshold THEN
        [gpio |-> litoff(liton(g, pintwo), pinone),
         writes |-> <<<<pintwo, HIGH>>, <<pinone, LOW>>>>,
         printed |-> "Camera 7 on"]
    ELSE IF themax < off_threshold THEN
        [gpio |-> litoff(litoff(g, pinone), pintwo),
         writes |-> <<<<pinone, LOW>>, <<pintwo, LOW>>>>,
         printed |-> "all off"]
    ELSE
        [gpio |-> g, writes |-> <<>>, printed |-> ""]

\* the second branch without its litoff(pinone)
Trigger_noexcl(g, themax) ==
    IF themax > name1threshold THEN
        [gpio |-> litoff(liton(g, pinone), pintwo),
         writes |-> <<<<pinone, HIGH>>, <<pintwo, LOW>>>>,
         printed |-> "Camera 4 on"]
    ELSE IF themax > name2threshold THEN
        [gpio |-> liton(g, pintwo),
         writes |-> <<<<pintwo, HIGH>>>>,
         printed |-> "Camera 7 on"]
    ELSE IF themax < off_threshold THEN
        [gpio |-> litoff(litoff(g, pinone), pintwo),
         writes |-> <<<<pinone, LOW>>, <<pintwo, LOW>>>>,
         printed |-> "all off"]
    ELSE
        [gpio |-> g, writes |-> <<>>, printed |-> ""]

\* the last comparison not strict (themax <= off_threshold)
Trigger_le(g, themax) ==
    IF themax > name1threshold THEN
        [gpio |-> litoff(liton(g, pinone), pintwo),
         writes |-> <<<<pinone, HIGH>>, <<pintwo, LOW>>>>,
         printed |-> "Camera 4 on"]
    ELSE IF themax > name2threshold THEN
        [gpio |-> litoff(liton(g, pintwo), pinone),
         writes |-> <<<<pintwo, HIGH>>, <<pinone, LOW>>>>,
         printed |-> "Camera 7 on"]
    ELSE IF themax <= off_threshold THEN
        [gpio |-> litoff(litoff(g, pinone), pintwo),
         writes |-> <<<<pinone, LOW>>, <<pintwo, LOW>>>>,
         printed |-> "all off"]
    ELSE
        [gpio |-> g, writes |-> <<>>, printed |-> ""]

\* the dead zone taken for "all off" (a final else that turns both pins off)
Trigger_else(g, themax) ==
    IF themax > name1threshold THEN
        [gpio |-> litoff(liton(g, pinone), pintwo),
         writes |-> <<<<pinone, HIGH>>, <<pintwo, LOW>>>>,
         printed |-> "Camera 4 on"]
    ELSE IF themax > name2threshold THEN
        [gpio |-> litoff(liton(g, pintwo), pinone),
         writes |-> <<<<pintwo, HIGH>>, <<pinone, LOW>>>>,
         printed |-> "Camera 7 on"]
    ELSE
        [gpio |-> litoff(litoff(g, pinone), pintwo),
         writes |-> <<<<pinone, LOW>>, <<pintwo, LOW>>>>,
         printed |-> "all off"]

\* the branches guarded by a comparison with the levels applied: nothing is
\* written or printed when the classified state is the applied one
Trigger_diff(g, themax) ==
    IF themax > name1threshold THEN
        IF g[pinone] = HIGH /\ g[pintwo] = LOW
        THEN [gpio |-> g, writes |-> <<>>, printed |-> ""]
        ELSE [gpio |-> litoff(liton(g, pinone), pintwo),
              writes |-> <<<<pinone, HIGH>>, <<pintwo, LOW>>>>,
              printed |-> "Camera 4 on"]
    ELSE IF themax > name2threshold THEN
        IF g[pintwo] = HIGH /\ g[pinone] = LOW
        THEN [gpio |-> g, writes |-> <<>>, printed |-> ""]
        ELSE [gpio |-> litoff(liton(g, pintwo), pinone),
              writes |-> <<<<pintwo, HIGH>>, <<pinone, LOW>>>>,
              printed |-> "Camera 7 on"]
    ELSE IF themax < off_threshold THEN
        IF g[pinone] = LOW /\ g[pintwo] = LOW
        THEN [gpio |-> g, writes |-> <<>>, printed |-> ""]
        ELSE [gpio |-> litoff(litoff(g, pinone), pintwo),
              writes |-> <<<<pinone, LOW>>, <<pintwo, LOW>>>>,
              printed |-> "all off"]
    ELSE
        [gpio |-> g, writes |-> <<>>, printed |-> ""]

\* the branches with the print guarded by a change of the levels: the pins
\* are written every time, the line is printed only when they change
Trigger_mute(g, themax) ==
    LET new == IF themax > name1threshold THEN litoff(liton(g, pinone), pintwo)
               ELSE IF themax > name2threshold THEN litoff(liton(g, pintwo), pinone)
               ELSE IF themax < off_threshold THEN litoff(litoff(g, pinone), pintwo)
               ELSE g
    IN  IF themax > name1threshold THEN
            [gpio |-> new,
             writes |-> <<<<pinone, HIGH>>, <<pintwo, LOW>>>>,
             printed |-> IF new = g THEN "" ELSE "Camera 4 on"]
        ELSE IF themax > name2threshold THEN
            [gpio |-> new,
             writes |-> <<<<pintwo, HIGH>>, <<pinone, LOW>>>>,
             printed |-> IF new = g THEN "" ELSE "Camera 7 on"]
        ELSE IF themax < off_threshold THEN
            [gpio |-> new,
             writes |-> <<<<pinone, LOW>>, <<pintwo, LOW>>>>,
             printed |-> IF new = g THEN "" ELSE "all off"]
        ELSE
            [gpio |-> g, writes |-> <<>>, printed |-> ""]

\* the threshold branches of update_plot on the window maximum
Trigger(g, themax) ==
    IF themax > name1threshold THEN
        [gpio |-> litoff(liton(g, pinone), pintwo),
         writes |-> <<<<pinone, HIGH>>, <<pintwo, LOW>>>>,
         printed |-> "Camera 4 on"]
    ELSE IF themax > name2threshold THEN
        [gpio |-> litoff(liton(g, pintwo), pinone),
         writes |-> <<<<pintwo, HIGH>>, <<pinone, LOW>>>>,
         printed |-> "Camera 7 on"]
    ELSE IF themax < off_threshold THEN
        [gpio |-> litoff(litoff(g, pinone), pintwo),
         writes |-> <<<<pinone, LOW>>, <<pintwo, LOW>>>>,
         printed |-> "all off"]
    ELSE
        [gpio |-> g, writes |-> <<>>, printed |-> ""]

---------------------------------------------------------------------------
\* Initial state: the module level has run down to the names and thresholds
\* (plotdata, allocated by Start, is shown as the zero window from the
\* beginning); the command line gave a window duration of either sign

Boot(sc) ==
    /\ scope = sc
    /\ q = <<>>
    /\ plotdata = Zeros(length)
    /\ gpio = [p \in Pins |-> LOW]
    /\ stream = "new"
    /\ pc = "names"
    /\ cycle = "idle"
    /\ outputs = {}
    /\ windowArg \in {"positive", "negative"}
    /\ step = "init"
    /\ old = Zeros(length)
    /\ before = [p \in Pins |-> LOW]
    /\ writes = <<>>
    /\ printed = ""
    /\ stderr = ""
    /\ enq = <<>>
    /\ deq = <<>>
    /\ pushed = <<>>
    /\ tape = Zeros(length)
    /\ atStart = 0
    /\ begun = [gpio |-> [p \in Pins |-> LOW], pushed |-> 0]
    /\ peaks = <<>>

\* every sample level, the whole history of the run kept
Init ==
    Boot([levels |-> Samples, rows |-> MaxRows, history |-> TRUE])

\* fewer sample levels, longer runs
HoldInit ==
    Boot([levels |-> HoldSamples, rows |-> MaxHoldRows, history |-> TRUE])

\* no history kept, so that a run can go on for ever: the rows are counted
\* in the queue
LiveInit ==
    Boot([levels |-> LiveSamples, rows |-> MaxLiveRows, history |-> FALSE])

\* the rows counted against scope.rows
Counted == IF scope.history THEN Rows(enq) ELSE Rows(q)

\* the new value of a history variable
Record(history, new) == IF scope.history THEN new ELSE history

\* what every step records about itself
Observe(name) ==
    /\ step' = name
    /\ old' = plotdata
    /\ before' = gpio

Quiet ==
    /\ writes' = <<>>
    /\ printed' = ""
    /\ stderr' = ""

---------------------------------------------------------------------------
\* Main script

\* lines 59-61: both pins are set up as outputs, before the try block and
\* before anything of the configuration is looked at
GpioSetup ==
    /\ pc = "names"
    /\ outputs' = Pins
    /\ pc' = "try"
    /\ Observe("setup") /\ Quiet
    /\ UNCHANGED <<q, plotdata, gpio, stream, cycle, windowArg, scope, enq, deq,
                   pushed, tape, atStart, begun, peaks>>

\* lines 177-200: the window is allocated (np.zeros raises on a negative
\* length), the stream opened and started, and plt.show() begins to run the
\* timer
Start ==
    /\ pc = "try"
    /\ windowArg = "positive"
    /\ pc' = "show"
    /\ plotdata' = Zeros(length)
    /\ stream' = "active"
    /\ Observe("start") /\ Quiet
    /\ UNCHANGED <<q, gpio, cycle, enq, deq, pushed, tape, atStart>>
    /\ UNCHANGED <<outputs, windowArg, scope, begun, peaks>>

\* lines 177-203: a call of the try block raises (no input device, the
\* stream cannot be opened, a negative window length); parser.exit reports
\* it and leaves the script, so GPIO.cleanup() in line 205 is not reached
StartFail ==
    /\ pc = "try"
    /\ pc' = "exited"
    /\ Observe("startfail")
    /\ writes' = <<>>
    /\ printed' = ""
    /\ stderr' = "error"
    /\ UNCHANGED <<q, plotdata, gpio, stream, cycle, enq, deq, pushed, tape,
                   atStart>>
    /\ UNCHANGED <<outputs, windowArg, scope, begun, peaks>>

\* the plot window is closed between two timer calls: plt.show() returns
CloseWindow ==
    /\ pc = "show"
    /\ cycle \in {"idle", "dead"}
    /\ pc' = "closing"
    /\ Observe("close") /\ Quiet
    /\ UNCHANGED <<q, plotdata, gpio, stream, cycle, enq, deq, pushed, tape,
                   atStart>>
    /\ UNCHANGED <<outputs, windowArg, scope, begun, peaks>>

\* the with block is left: the stream is stopped and closed
StreamExit ==
    /\ pc = "closing"
    /\ stream' = "closed"
    /\ pc' = "cleanup"
    /\ Observe("streamexit") /\ Quiet
    /\ UNCHANGED <<q, plotdata, gpio, cycle, enq, deq, pushed, tape, atStart>>
    /\ UNCHANGED <<outputs, windowArg, scope, begun, peaks>>

\* GPIO.cleanup(): the pins are released
Cleanup ==
    /\ pc = "cleanup"
    /\ gpio' = [p \in Pins |-> LOW]
    /\ outputs' = {}
    /\ pc' = "done"
    /\ Observe("cleanup") /\ Quiet
    /\ UNCHANGED <<q, plotdata, stream, cycle, windowArg, scope, enq, deq, pushed, tape,
                   atStart, begun, peaks>>

---------------------------------------------------------------------------
\* Capture thread

\* the callback on a queue of capacity one: put has no room while a block
\* is waiting
audio_callback_bounded(indata, status) ==
    /\ stream = "active"
    /\ Len(q) < 1
    /\ Counted + Len(Decimate(indata)) <= scope.rows
    /\ q' = Append(q, Decimate(indata))
    /\ enq' = Record(enq, Append(enq, Decimate(indata)))
    /\ Observe("callback")
    /\ writes' = <<>>
    /\ printed' = ""
    /\ stderr' = IF status THEN "status" ELSE ""
    /\ UNCHANGED <<plotdata, gpio, stream, pc, cycle, deq, pushed, tape, atStart>>
    /\ UNCHANGED <<outputs, windowArg, scope, begun, peaks>>

audio_callback(indata, status) ==
    /\ stream = "active"
    /\ Counted + Len(Decimate(indata)) <= scope.rows
    /\ q' = Append(q, Decimate(indata))
    /\ enq' = Record(enq, Append(enq, Decimate(indata)))
    /\ Observe("callback")
    /\ writes' = <<>>
    /\ printed' = ""
    /\ stderr' = IF status THEN "status" ELSE ""
    /\ UNCHANGED <<plotdata, gpio, stream, pc, cycle, deq, pushed, tape, atStart>>
    /\ UNCHANGED <<outputs, windowArg, scope, begun, peaks>>

Capture ==
    \E frames \in {f \in 1..MaxFrames : Counted + Kept(f) <= scope.rows} :
        \E rows \in [1..Kept(frames) -> scope.levels] :
            \E status \in BOOLEAN :
                audio_callback(Raw(rows, frames), status)

---------------------------------------------------------------------------
\* update_plot, called by the animation timer

TimerFire ==
    /\ pc = "show"
    /\ cycle = "idle"
    /\ cycle' = "loop"
    /\ atStart' = Len(enq)
    /\ begun' = [gpio |-> gpio, pushed |-> Len(pushed)]
    /\ peaks' = <<>>
    /\ Observe("timer") /\ Quiet
    /\ UNCHANGED <<q, plotdata, gpio, stream, pc, enq, deq, pushed, tape>>
    /\ UNCHANGED <<outputs, windowArg, scope>>

\* one pass of the while loop that gets a block
Drain ==
    /\ cycle = "loop"
    /\ q # <<>>
    /\ LET data == Head(q)
           shift == Len(data)
           rolled == roll(plotdata, -shift)
       IN  /\ q' = Tail(q)
           /\ deq' = Record(deq, Append(deq, data))
           /\ old' = plotdata
           /\ before' = gpio
           /\ stderr' = ""
           /\ IF CanAssign(rolled, shift, data)
              THEN LET window == SetTail(rolled, shift, data)
                       t == Trigger(gpio, Max(window))
                   IN  /\ plotdata' = window
                       /\ gpio' = t.gpio
                       /\ writes' = t.writes
                       /\ printed' = t.printed
                       /\ pushed' = Record(pushed, Append(pushed, data))
                       /\ tape' = Record(tape, tape \o data)
                       /\ peaks' = Record(peaks, Append(peaks, Max(window)))
                       /\ step' = "drain"
                       /\ cycle' = "loop"
              ELSE /\ plotdata' = rolled
                   /\ gpio' = gpio
                   /\ writes' = <<>>
                   /\ printed' = ""
                   /\ pushed' = pushed
                   /\ tape' = Record(tape, rolled)
                   /\ peaks' = peaks
                   /\ step' = "raise"
                   /\ cycle' = "raised"
    /\ UNCHANGED <<stream, pc, enq, atStart, outputs, windowArg, scope, begun>>

\* the pass that finds the queue empty: break, the lines are redrawn
Break ==
    /\ cycle = "loop"
    /\ q = <<>>
    /\ cycle' = "idle"
    /\ Observe("break") /\ Quiet
    /\ UNCHANGED <<q, plotdata, gpio, stream, pc, enq, deq, pushed, tape,
                   atStart>>
    /\ UNCHANGED <<outputs, windowArg, scope, begun, peaks>>

\* What becomes of a ValueError raised inside the timer callback depends on
\* the GUI backend: the timer is not re-armed, or the error is reported and
\* the timer goes on, or the error leaves plt.show() and reaches the except
\* clause (the with block closes the stream on the way).
TimerStops ==
    /\ cycle = "raised"
    /\ cycle' = "dead"
    /\ Observe("timerstops") /\ Quiet
    /\ UNCHANGED <<q, plotdata, gpio, stream, pc, enq, deq, pushed, tape,
                   atStart>>
    /\ UNCHANGED <<outputs, windowArg, scope, begun, peaks>>

TimerContinues ==
    /\ cycle = "raised"
    /\ cycle' = "idle"
    /\ Observe("timercontinues") /\ Quiet
    /\ UNCHANGED <<q, plotdata, gpio, stream, pc, enq, deq, pushed, tape,
                   atStart>>
    /\ UNCHANGED <<outputs, windowArg, scope, begun, peaks>>

Propagate ==
    /\ cycle = "raised"
    /\ pc = "show"
    /\ cycle' = "dead"
    /\ stream' = "closed"
    /\ pc' = "exited"
    /\ Observe("except")
    /\ writes' = <<>>
    /\ printed' = ""
    /\ stderr' = "error"
    /\ UNCHANGED <<q, plotdata, gpio, enq, deq, pushed, tape, atStart>>
    /\ UNCHANGED <<outputs, windowArg, scope, begun, peaks>>

---------------------------------------------------------------------------

Next ==
    \/ GpioSetup
    \/ Start
    \/ StartFail
    \/ Capture
    \/ TimerFire
    \/ Drain
    \/ Break
    \/ TimerStops
    \/ TimerContinues
    \/ Propagate
    \/ CloseWindow
    \/ StreamExit
    \/ Cleanup

Spec == Init /\ [][Next]_vars

\* the same program on the longer runs
HoldSpec == HoldInit /\ [][Next]_vars

\* the runs that can go on for ever. update_plot is running code: once in
\* the while loop it takes its next pass, whichever that is; nothing is
\* assumed of the callback, the timer or the user
LiveSpec == LiveInit /\ [][Next]_vars /\ WF_vars(Drain \/ Break)

---------------------------------------------------------------------------
\* Properties

Trigger1Active(g) == g[pinone] = HIGH /\ g[pintwo] = LOW
Trigger2Active(g) == g[pintwo] = HIGH /\ g[pinone] = LOW
AllOff(g) == g[pinone] = LOW /\ g[pintwo] = LOW

\* the band of a peak: which branch of the policy it selects
Band(peak) ==
    IF peak > name1threshold THEN "Trigger1"
    ELSE IF peak > name2threshold THEN "Trigger2"
    ELSE IF peak < off_threshold THEN "AllOff"
    ELSE "dead"

\* the step just taken wrote a block into the window and classified its peak
Processed == step = "drain"

\* the step just taken ended an evaluation cycle: by break, or by the error
\* raised in the loop
CycleEnded == step \in {"break", "raise"}

\* C1: whenever a block is processed, a window peak above name1threshold
\* leaves pin one High and pin two Low; otherwise a peak above
\* name2threshold leaves pin two High and pin one Low; otherwise a peak
\* below off_threshold leaves both pins Low.
C1_Precedence ==
    Processed =>
        /\ Max(plotdata) > name1threshold => Trigger1Active(gpio)
        /\ (Max(plotdata) <= name1threshold /\ Max(plotdata) > name2threshold)
              => Trigger2Active(gpio)
        /\ (Max(plotdata) <= name2threshold /\ Max(plotdata) < off_threshold)
              => AllOff(gpio)

\* a peak above the first threshold is processed while trigger two is active
C1_Witness ==
    /\ Processed
    /\ Max(plotdata) > name1threshold
    /\ Trigger2Active(before)
    /\ Trigger1Active(gpio)

\* C2: in every state between steps the two pins are never High together.
C2_MutualExclusion == ~(gpio[pinone] = HIGH /\ gpio[pintwo] = HIGH)

\* a processed block switches the outputs from trigger one to trigger two
C2_Witness ==
    /\ Processed
    /\ Trigger1Active(before)
    /\ Trigger2Active(gpio)

\* C3: a processed block whose window peak lies in the dead zone, the two
\* threshold values included, writes no pin and leaves the levels as they were.
C3_DeadZone ==
    (Processed /\ off_threshold <= Max(plotdata) /\ Max(plotdata) <= name2threshold)
        => (writes = <<>> /\ gpio = before)

\* a peak equal to off_threshold is processed while a trigger is active
C3_Witness ==
    /\ Processed
    /\ Max(plotdata) = off_threshold
    /\ ~AllOff(gpio)

\* C4: when an evaluation cycle ends, every block enqueued before it began
\* has been pushed into the window, the pushed blocks are the enqueued ones
\* in arrival order, and the queue is empty if nothing was enqueued meanwhile.
C4_FifoDrain ==
    /\ deq \o q = enq
    /\ CycleEnded =>
          /\ Len(pushed) >= atStart
          /\ pushed = SubSeq(enq, 1, Len(pushed))
          /\ (Len(enq) = atStart => q = <<>>)

\* C5: no block is lost or duplicated on its way to the window: the blocks
\* taken from the queue are a prefix of the blocks enqueued, and each of them
\* has been pushed into the window, once and in order.
C5_NoBlockMissed ==
    /\ deq = SubSeq(enq, 1, Len(deq))
    /\ pushed = deq

\* C6: after the push of a block of any size the window has `length` rows:
\* the old rows less the oldest `shift`, followed by the rows of the block.
C6_WindowShift ==
    step \in {"drain", "raise"} =>
        /\ Len(plotdata) = length
        /\ plotdata = LastRows(old \o deq[Len(deq)], length)

\* C7: the window is always the last `length` rows of what went through it:
\* after blocks totalling `length` rows it holds exactly their samples in
\* arrival order, after fewer rows the earlier contents moved toward the old
\* end, and every row read or written exists.
C7_RoundTrip ==
    /\ DOMAIN plotdata = 1..length
    /\ plotdata = LastRows(tape, length)
    /\ Processed => plotdata = LastRows(old \o pushed[Len(pushed)], length)

\* two blocks that total `length` rows have been pushed into the initial
\* window, the second one just now
C7_Witness ==
    /\ Processed
    /\ Len(pushed) = 2
    /\ Rows(pushed) = length
    /\ plotdata = pushed[1] \o pushed[2]

\* C8: a processed block whose peak selects the trigger state that the block
\* processed before it selected leaves the level of every pin as it was.
C8_Idempotent ==
    ( /\ Processed
      /\ Len(pushed) >= 2
      /\ Band(Max(plotdata)) # "dead"
      /\ Band(Max(old)) = Band(Max(plotdata)) )
        => gpio = before

\* trigger one is applied a second time in a row
C8_Witness ==
    /\ Processed
    /\ Len(pushed) >= 2
    /\ Band(Max(old)) = "Trigger1"
    /\ Band(Max(plotdata)) = "Trigger1"
    /\ Trigger1Active(gpio)

\* C9: the capture stream is never closed while a pin is High.
C9_OffBeforeStreamStops == stream = "closed" => AllOff(gpio)

\* C10: a callback invoked with an error status logs it and enqueues nothing.
C10_ErrorBlockDropped ==
    [][(step' = "callback" /\ stderr' = "status") => (q' = q /\ enq' = enq)]_vars

\* C11: on every exit path the script ends with the output cleanup done
\* and both pins Low.
C11_ExitReleased ==
    pc \in {"done", "exited"} => (outputs = {} /\ AllOff(gpio))

\* C12: a window length that resolves to a negative number is reported
\* before any pin is set up as an output and before any block is classified.
C12_RejectedUpFront ==
    windowArg = "negative" => (outputs = {} /\ pushed = <<>>)

\* the levels after a sequence of GPIO.output calls, applied in order
RECURSIVE Output(_, _)
Output(g, calls) ==
    IF calls = <<>> THEN g
    ELSE Output([g EXCEPT ![Head(calls)[1]] = Head(calls)[2]], Tail(calls))

\* C13: after each single pin write of a step, counted from the levels
\* before the step, the two pins are never High together.
C13_NoTransientBothHigh ==
    \A k \in 0..Len(writes) :
        LET g == Output(before, SubSeq(writes, 1, k))
        IN  ~(g[pinone] = HIGH /\ g[pintwo] = HIGH)

\* the pin levels of a trigger state
LevelsOf(band) ==
    [p \in Pins |->
        IF (band = "Trigger1" /\ p = pinone) \/ (band = "Trigger2" /\ p = pintwo)
        THEN HIGH ELSE LOW]

\* the levels a single classification of `peak` leaves, coming from levels g
Expected(g, peak) == IF Band(peak) = "dead" THEN g ELSE LevelsOf(Band(peak))

\* the levels after classifying each of `ps` in turn
RECURSIVE Settle(_, _)
Settle(g, ps) ==
    IF ps = <<>> THEN g ELSE Settle(Expected(g, Head(ps)), Tail(ps))

\* C14 as stated: after a cycle that drained at least one block the levels
\* are those a single classification of the final window gives, coming from
\* the levels before the cycle.
C14_OncePerCycle ==
    (step = "break" /\ Len(pushed) > begun.pushed)
        => gpio = Expected(begun.gpio, Max(plotdata))

\* C14 amended: every block is classified right after its push, so inside
\* and at the end of a cycle there is one classified peak per pushed block
\* and the levels are those of the last peak outside the dead zone, or the
\* levels before the cycle when every peak was in the dead zone.
C14_PerBlock ==
    step \in {"drain", "break", "raise"} =>
        /\ Len(peaks) = Len(pushed) - begun.pushed
        /\ gpio = Settle(begun.gpio, peaks)

\* a cycle of two blocks has ended with levels that a single classification
\* of the final window does not give
C14_Witness ==
    /\ step = "break"
    /\ Len(peaks) >= 2
    /\ gpio # Expected(begun.gpio, Max(plotdata))

\* C15 as stated: a processed block issues pin writes only when the state
\* its peak selects differs from the state applied to the pins.
C15_RedundantSkipped ==
    (Processed /\ writes # <<>>) => Expected(before, Max(plotdata)) # before

\* C15 amended: a processed block whose peak is outside the dead zone issues
\* the two pin writes of its branch, one per pin, whatever levels are
\* applied; only a dead-zone block issues none.
C15_AlwaysWritten ==
    Processed =>
        IF Band(Max(plotdata)) = "dead" THEN writes = <<>>
        ELSE /\ Len(writes) = 2
             /\ {writes[1][1], writes[2][1]} = Pins
             /\ Output(before, writes) = LevelsOf(Band(Max(plotdata)))

\* a block whose peak selects the state already applied has written the pins
C15_Witness ==
    /\ Processed
    /\ Trigger1Active(before)
    /\ gpio = before
    /\ writes # <<>>

\* C16: a dequeued block with more rows than the window is handled by
\* truncation: the pass completes, the window holds the block's last
\* `length` rows and the outputs follow the peak of those rows.
C16_OversizedTruncated ==
    (step \in {"drain", "raise"} /\ Len(deq[Len(deq)]) > length) =>
        /\ step = "drain"
        /\ plotdata = LastRows(deq[Len(deq)], length)
        /\ gpio = Expected(before, Max(LastRows(deq[Len(deq)], length)))

\* the line naming a band on the console
EventOf(band) ==
    IF band = "Trigger1" THEN "Camera 4 on"
    ELSE IF band = "Trigger2" THEN "Camera 7 on"
    ELSE IF band = "AllOff" THEN "all off"
    ELSE ""

\* C17 as stated: a processed block emits an event exactly when the applied
\* trigger state changes, and none when it leaves the state as it was.
C17_EventOnChangeOnly ==
    Processed => (printed # "" <=> gpio # before)

\* C17 amended: every processed block whose peak is outside the dead zone
\* emits the event naming its band, so every change of the applied state is
\* announced, and so is every re-application of the same state; a dead-zone
\* block emits nothing.
C17_EventPerBlock ==
    Processed =>
        /\ printed = EventOf(Band(Max(plotdata)))
        /\ gpio # before => printed # ""

\* a block leaving the applied state as it was has emitted an event
C17_Witness ==
    /\ Processed
    /\ Trigger2Active(before)
    /\ gpio = before
    /\ printed = "Camera 7 on"

\* C18: while the stream is active the capture callback is enabled whatever
\* the queue holds (up to the rows the model admits); a callback step
\* appends exactly one block at the tail of the queue and leaves the window
\* and both pins unchanged; while the program runs the window and the pins
\* are changed only by a pass of the evaluation cycle (the release of the
\* pins by the final cleanup apart).
C18_Ownership ==
    /\ [](stream = "active" /\ Counted < scope.rows => ENABLED Capture)
    /\ [][step' = "callback" =>
            /\ Len(q') = Len(q) + 1
            /\ SubSeq(q', 1, Len(q)) = q
            /\ q'[Len(q')] # <<>>
            /\ plotdata' = plotdata
            /\ gpio' = gpio]_vars
    /\ [][(plotdata' # plotdata \/ gpio' # gpio) =>
            step' \in {"drain", "raise", "cleanup"}]_vars

\* the callback has run while the evaluation cycle was draining and blocks
\* were already waiting in the queue
C18_Witness ==
    /\ step = "callback"
    /\ cycle = "loop"
    /\ Len(q) >= 2
    /\ plotdata # Zeros(length)

\* the rows of a sequence of blocks, in order
RECURSIVE Flat(_)
Flat(blocks) == IF blocks = <<>> THEN <<>> ELSE Head(blocks) \o Flat(Tail(blocks))

\* a processed block is classified Trigger1Active while a sample above the
\* first threshold is in the window
PeakOverWindow ==
    (Processed /\ \E i \in 1..length : plotdata[i] > name1threshold)
        => Trigger1Active(gpio)

\* a sample above the first threshold keeps the outputs at Trigger1Active
\* until `length` further samples have been pushed: it is among the last
\* `length` samples pushed
HeldForLength ==
    (Processed /\ \E i \in 1..length :
            LastRows(Zeros(length) \o Flat(pushed), length)[i] > name1threshold)
        => Trigger1Active(gpio)

\* the outputs reach AllOff only on a window wholly below off_threshold
OffOnlyWhenQuiet ==
    (Processed /\ ~AllOff(before) /\ AllOff(gpio))
        => \A i \in 1..length : plotdata[i] < off_threshold

\* C20: the peak is taken over the whole window: a processed block is
\* classified Trigger1Active while a sample above the first threshold is in
\* the window, the outputs leave Trigger1Active only after `length` further
\* samples have been pushed, and they reach AllOff only once every sample
\* of the window is below off_threshold.
C20_WindowHoldTime ==
    /\ PeakOverWindow
    /\ HeldForLength
    /\ OffOnlyWhenQuiet

\* C19: every evaluation cycle eventually leaves the drain loop (by the
\* pass that finds the queue empty, or by the error of an oversized block),
\* also when the callback keeps enqueuing while the cycle drains.
C19_CycleTerminates == (cycle = "loop") ~> (cycle # "loop")

====
